---- MODULE Spec2Model ----
(***************************************************************************)
(* Model of the report-generation part of src/rust/src/main.rs             *)
(* (lines 115-180 of main): the wallet and node lookups, the input         *)
(* resolver, the output classification loop, the fee and block metadata,   *)
(* and the ten writeln! calls that produce ../out.txt.                     *)
(*                                                                         *)
(* A run of main is a process r with a program counter pc[r] (the source   *)
(* line it is about to execute), its local variables loc[r] (a record that *)
(* gains a field at each `let`), and the offset of its file handle.  The   *)
(* file ../out.txt is shared by all runs.  Strings are sequences of        *)
(* one-character strings, so that formatting and file contents are         *)
(* compared byte by byte.  Currency values are counted in units of 1e-8    *)
(* BTC: the f64 that to_btc() returns for k such units prints, at eight    *)
(* decimals, as k again for every amount below 21 million BTC.             *)
(***************************************************************************)
EXTENDS Integers, Sequences, FiniteSets, TLC

VARIABLES
    pc,        \* pc[r]: the statement of main run r executes next
    err,       \* err[r]: "none", or why run r aborted (pc[r] stays where it did)
    loc,       \* loc[r]: the local variables of main that are in scope
    rpc_log,   \* rpc_log[r]: the RPC calls run r has issued, in order
    file,      \* ../out.txt: [exists, data]
    file0,     \* what ../out.txt was before any run started
    off,       \* off[r]: the position of run r's output_file handle
    after      \* after[r]: history, the runs that had finished when r called File::create

vars == <<pc, err, loc, rpc_log, file, file0, off, after>>

-----------------------------------------------------------------------------
(* Bounds of the model *)

MaxInputs == 2
MaxOutputs == 2

-----------------------------------------------------------------------------
(* Option<T>: None is the empty sequence, Some(x) the sequence <<x>>. *)

None == <<>>
Some(x) == <<x>>
IsSome(o) == Len(o) = 1
Unwrap(o) == o[1]
Opt(S) == {None} \cup {Some(x) : x \in S}

(* A `let name = v` brings a local into scope. *)
Bind(rec, name, v) ==
    [n \in (DOMAIN rec) \cup {name} |-> IF n = name THEN v ELSE rec[n]]

RECURSIVE SeqsUpTo(_, _)
SeqsUpTo(S, n) ==
    IF n = 0 THEN {<<>>}
    ELSE LET shorter == SeqsUpTo(S, n - 1)
         IN  shorter \cup {Append(s, x) : s \in {t \in shorter : Len(t) = n - 1}, x \in S}

(* The lines of a text, each followed by a newline. *)
RECURSIVE Flatten(_)
Flatten(lines) ==
    IF lines = <<>> THEN <<>> ELSE Head(lines) \o <<"\n">> \o Flatten(Tail(lines))

-----------------------------------------------------------------------------
(* Formatting *)

Digit(d) == <<"0", "1", "2", "3", "4", "5", "6", "7", "8", "9">>[d + 1]

RECURSIVE DecDigits(_)
DecDigits(n) ==
    IF n < 10 THEN <<Digit(n)>> ELSE Append(DecDigits(n \div 10), Digit(n % 10))

RECURSIVE Pow10(_)
Pow10(k) == IF k = 0 THEN 1 ELSE 10 * Pow10(k - 1)

(* `{x:.8}` of the f64 holding v units of 1e-8 BTC. *)
Fmt8(v) ==
    LET m == IF v < 0 THEN -v ELSE v
        sign == IF v < 0 THEN <<"-">> ELSE <<>>
        frac == [k \in 1..8 |-> Digit((m \div Pow10(8 - k)) % 10)]
    IN  sign \o DecDigits(m \div Pow10(8)) \o <<".">> \o frac

(* Variant of Abs: the sign is kept. *)
AbsNoOp(x) == x

(* f64::abs *)
Abs(x) == IF x < 0 THEN -x ELSE x

(* Display of the identifiers, hashes and addresses of the model. *)
TxidStr(t) ==
    CASE t = "t0" -> <<"7", "a", "0", "0">>
      [] t = "p1" -> <<"7", "a", "0", "1">>
      [] t = "p2" -> <<"7", "a", "0", "2">>
      [] t = "t1" -> <<"7", "a", "1", "0", "0">>

HashStr(h) == <<"0", "0", "0", "a", "b", "c">>

AddrStr(a) ==
    CASE a = "M" -> <<"b", "c", "r", "t", "1", "q", "m">>
      [] a = "A" -> <<"b", "c", "r", "t", "1", "q", "a">>
      [] a = "B" -> <<"b", "c", "r", "t", "1", "q", "b">>

(* Address::from_script(script, Network::Regtest): Some address for a
   standard script, None for any other. *)
from_script(script) ==
    CASE script = "sM" -> Some("M")
      [] script = "sA" -> Some("A")
      [] script = "sB" -> Some("B")
      [] OTHER -> None

-----------------------------------------------------------------------------
(* What the node and the wallet can answer *)

Heights == {101}
Hashes == {"h101"}
Fees == {-15000, 0, 15000}

TxDetails == [blockheight : Opt(Heights), blockhash : Opt(Hashes), fee : Opt(Fees)]

InputPool ==
    { [txid |-> "p1", vout |-> 0], [txid |-> "p1", vout |-> 1],
      [txid |-> "p1", vout |-> 2], [txid |-> "p2", vout |-> 0] }

OutputPool ==
    { [value |-> 500000000, script |-> "sA"], [value |-> 2000000000, script |-> "sA"],
      [value |-> 1499999000, script |-> "sB"], [value |-> 500000000, script |-> "sBad"] }

RawTxs == [input : SeqsUpTo(InputPool, MaxInputs), output : SeqsUpTo(OutputPool, MaxOutputs)]

(* The settled transactions the node can return: p1 is known, with a standard
   and a non-standard output; no other transaction is. *)
Ledger(txid) ==
    CASE txid = "p1" -> Some([output |-> << [value |-> 2100000000, script |-> "sM"],
                                            [value |-> 100000000, script |-> "sBad"] >>])
      [] OTHER -> None

TraderAddresses == {"A", "B"}

-----------------------------------------------------------------------------
(* The file system: File::create and the write behind writeln! *)

(* Variant of FileCreate: the file is opened without being truncated. *)
CreateKeepsData(f) == [exists |-> TRUE, data |-> f.data]

(* File::create: the file exists afterwards and is empty. *)
FileCreate(f) == [exists |-> TRUE, data |-> <<>>]

NUL == "NUL"

(* A write of `bytes` at offset o: it replaces what is there, extends the
   file, and fills a gap up to o with NUL bytes. *)
WriteAt(f, o, bytes) ==
    LET n == IF Len(f.data) > o + Len(bytes) THEN Len(f.data) ELSE o + Len(bytes)
    IN  [f EXCEPT !.data =
            [k \in 1..n |->
                IF k > o /\ k <= o + Len(bytes) THEN bytes[k - o]
                ELSE IF k <= Len(f.data) THEN f.data[k]
                ELSE NUL]]

-----------------------------------------------------------------------------
(* The steps of main *)

Runs == DOMAIN pc

Goto(r, label) == pc' = [pc EXCEPT ![r] = label]
Panic(r, why) == err' = [err EXCEPT ![r] = why] /\ UNCHANGED pc
Let(r, name, v) == loc' = [loc EXCEPT ![r] = Bind(@, name, v)]
Call(r, client, method, txid) ==
    rpc_log' = [rpc_log EXCEPT ![r] =
                   Append(@, [client |-> client, method |-> method, txid |-> txid])]
At(r, label) == pc[r] = label /\ err[r] = "none"

(* line 115: let tx_details = miner_rpc.get_transaction(&transaction_id, None)?; *)
GetTransaction(r) ==
    /\ At(r, "get_transaction")
    /\ Call(r, "miner_rpc", "gettransaction", loc[r].transaction_id)
    /\ \E res \in Opt(TxDetails) :
          IF IsSome(res)
          THEN Let(r, "tx_details", Unwrap(res)) /\ Goto(r, "get_raw_transaction")
               /\ UNCHANGED err
          ELSE Panic(r, "RpcError") /\ UNCHANGED loc
    /\ UNCHANGED <<file, file0, off, after>>

(* line 117: let raw_tx = miner_rpc.get_raw_transaction(&transaction_id, None)?; *)
GetRawTransaction(r) ==
    /\ At(r, "get_raw_transaction")
    /\ Call(r, "miner_rpc", "getrawtransaction", loc[r].transaction_id)
    /\ \E res \in Opt(RawTxs) :
          IF IsSome(res)
          THEN Let(r, "raw_tx", Unwrap(res)) /\ Goto(r, "block_height")
               /\ UNCHANGED err
          ELSE Panic(r, "RpcError") /\ UNCHANGED loc
    /\ UNCHANGED <<file, file0, off, after>>

(* Variant of BlockHeightOf: unwrap_or_default in place of expect. *)
HeightOrDefault(d) == Some(IF IsSome(d.blockheight) THEN Unwrap(d.blockheight) ELSE 0)

(* lines 119-121 and 123-125: the Option that .expect() is called on *)
BlockHeightOf(d) == d.blockheight
BlockHashOf(d) == d.blockhash

(* lines 119-122: let block_height = tx_details.info.blockheight.expect(..);
   expect panics on None. *)
BlockHeight(r) ==
    /\ At(r, "block_height")
    /\ LET v == BlockHeightOf(loc[r].tx_details)
       IN  IF IsSome(v)
           THEN Let(r, "block_height", Unwrap(v)) /\ Goto(r, "block_hash")
                /\ UNCHANGED err
           ELSE Panic(r, "PreconditionViolation") /\ UNCHANGED loc
    /\ UNCHANGED <<rpc_log, file, file0, off, after>>

(* lines 123-126: let block_hash = tx_details.info.blockhash.expect(..); *)
BlockHash(r) ==
    /\ At(r, "block_hash")
    /\ LET v == BlockHashOf(loc[r].tx_details)
       IN  IF IsSome(v)
           THEN Let(r, "block_hash", Unwrap(v)) /\ Goto(r, "first_input")
                /\ UNCHANGED err
           ELSE Panic(r, "PreconditionViolation") /\ UNCHANGED loc
    /\ UNCHANGED <<rpc_log, file, file0, off, after>>

(* Variant of FirstInputIndex: the last input is taken. *)
LastInputIndex(input) == Len(input)

(* line 128: &raw_tx.input[0] *)
FirstInputIndex(input) == 1

(* lines 128-130: first_input, prev_txid, prev_vout_index; indexing an empty
   input vector panics. *)
FirstInput(r) ==
    /\ At(r, "first_input")
    /\ LET input == loc[r].raw_tx.input
       IN  IF Len(input) >= 1
           THEN /\ loc' = [loc EXCEPT ![r] =
                              Bind(Bind(@, "prev_txid", input[FirstInputIndex(input)].txid),
                                   "prev_vout_index", input[FirstInputIndex(input)].vout)]
                /\ Goto(r, "prev_raw_tx")
                /\ UNCHANGED err
           ELSE Panic(r, "NoInput") /\ UNCHANGED loc
    /\ UNCHANGED <<rpc_log, file, file0, off, after>>

(* line 132: let prev_raw_tx = rpc.get_raw_transaction(&prev_txid, None)?; *)
GetPrevRawTransaction(r) ==
    /\ At(r, "prev_raw_tx")
    /\ Call(r, "rpc", "getrawtransaction", loc[r].prev_txid)
    /\ LET res == Ledger(loc[r].prev_txid)
       IN  IF IsSome(res)
           THEN Let(r, "prev_raw_tx", Unwrap(res)) /\ Goto(r, "prev_output")
                /\ UNCHANGED err
           ELSE Panic(r, "LookupFailure") /\ UNCHANGED loc
    /\ UNCHANGED <<file, file0, off, after>>

(* line 134: &prev_raw_tx.output[prev_vout_index as usize]: the element at the
   zero-based index, None when the index is not below the length. *)
Index(v, idx) == IF idx < Len(v) THEN Some(v[idx + 1]) ELSE None

(* line 134: let prev_output = ...; an index out of range panics. *)
PrevOutput(r) ==
    /\ At(r, "prev_output")
    /\ LET o == Index(loc[r].prev_raw_tx.output, loc[r].prev_vout_index)
       IN  IF IsSome(o)
           THEN Let(r, "prev_output", Unwrap(o)) /\ Goto(r, "miner_input")
                /\ UNCHANGED err
           ELSE Panic(r, "IndexOutOfRange") /\ UNCHANGED loc
    /\ UNCHANGED <<rpc_log, file, file0, off, after>>

(* lines 136-140: miner_input_address and miner_input_amount *)
MinerInput(r) ==
    /\ At(r, "miner_input")
    /\ LET a == from_script(loc[r].prev_output.script)
       IN  IF IsSome(a)
           THEN /\ loc' = [loc EXCEPT ![r] =
                              Bind(Bind(@, "miner_input_address", AddrStr(Unwrap(a))),
                                   "miner_input_amount", loc[r].prev_output.value)]
                /\ Goto(r, "slots")
                /\ UNCHANGED err
           ELSE Panic(r, "AddressDecodeFailure") /\ UNCHANGED loc
    /\ UNCHANGED <<rpc_log, file, file0, off, after>>

(* Variant of EmptySlots: the recipient slot starts with the recipient address. *)
SlotsPrefilled(l) ==
    Bind(Bind(Bind(Bind(l, "trader_output_address", AddrStr(l.trader_address)),
                   "trader_output_amount", 0),
              "miner_change_address", <<>>),
         "miner_change_amount", 0)

(* lines 142-145: the four slots start empty. *)
EmptySlots(l) ==
    Bind(Bind(Bind(Bind(l, "trader_output_address", <<>>),
                   "trader_output_amount", 0),
              "miner_change_address", <<>>),
         "miner_change_amount", 0)

(* lines 142-147: the slots are declared and the iteration over raw_tx.output
   starts (next: how many outputs the loop has consumed). *)
Slots(r) ==
    /\ At(r, "slots")
    /\ loc' = [loc EXCEPT ![r] = Bind(EmptySlots(@), "next", 0)]
    /\ Goto(r, "for_output")
    /\ UNCHANGED <<err, rpc_log, file, file0, off, after>>

(* Variants of LoopBody: the comparison negated; the first match kept; the
   else branch missing. *)
LoopBodyInverted(l, output_address, output_amount_btc) ==
    IF output_address # l.trader_address
    THEN [l EXCEPT !.trader_output_address = AddrStr(output_address),
                   !.trader_output_amount = output_amount_btc]
    ELSE [l EXCEPT !.miner_change_address = AddrStr(output_address),
                   !.miner_change_amount = output_amount_btc]
LoopBodyFirstWins(l, output_address, output_amount_btc) ==
    IF output_address = l.trader_address
    THEN IF l.trader_output_address = <<>>
         THEN [l EXCEPT !.trader_output_address = AddrStr(output_address),
                        !.trader_output_amount = output_amount_btc]
         ELSE l
    ELSE [l EXCEPT !.miner_change_address = AddrStr(output_address),
                   !.miner_change_amount = output_amount_btc]
LoopBodyNoElse(l, output_address, output_amount_btc) ==
    IF output_address = l.trader_address
    THEN [l EXCEPT !.trader_output_address = AddrStr(output_address),
                   !.trader_output_amount = output_amount_btc]
    ELSE l

(* lines 150-158: the body of the loop once the output's address is decoded *)
LoopBody(l, output_address, output_amount_btc) ==
    IF output_address = l.trader_address
    THEN [l EXCEPT !.trader_output_address = AddrStr(output_address),
                   !.trader_output_amount = output_amount_btc]
    ELSE [l EXCEPT !.miner_change_address = AddrStr(output_address),
                   !.miner_change_amount = output_amount_btc]

(* lines 147-159: one iteration of `for output in &raw_tx.output`, or the end
   of the loop when every output is consumed. *)
ForOutput(r) ==
    /\ At(r, "for_output")
    /\ LET l == loc[r]
           outputs == l.raw_tx.output
       IN  IF l.next < Len(outputs)
           THEN LET output == outputs[l.next + 1]
                    a == from_script(output.script)
                IN  IF IsSome(a)
                    THEN /\ loc' = [loc EXCEPT ![r] =
                                       [LoopBody(l, Unwrap(a), output.value)
                                           EXCEPT !.next = l.next + 1]]
                         /\ UNCHANGED <<pc, err>>
                    ELSE Panic(r, "AddressDecodeFailure") /\ UNCHANGED loc
           ELSE Goto(r, "transaction_fees") /\ UNCHANGED <<loc, err>>
    /\ UNCHANGED <<rpc_log, file, file0, off, after>>

(* Variant of TransactionFees: line 161 placed after line 164, so that the
   file is created when the unwrap panics. *)
TransactionFeesAfterCreate(r) ==
    /\ At(r, "transaction_fees")
    /\ LET fee == loc[r].tx_details.fee
       IN  IF IsSome(fee)
           THEN Let(r, "transaction_fees", Abs(Unwrap(fee))) /\ Goto(r, "create")
                /\ UNCHANGED <<err, file>>
           ELSE Panic(r, "PreconditionViolation") /\ file' = FileCreate(file)
                /\ UNCHANGED loc
    /\ UNCHANGED <<rpc_log, file0, off, after>>

(* line 161: let transaction_fees = tx_details.fee.unwrap().to_btc().abs();
   unwrap panics on None. *)
TransactionFees(r) ==
    /\ At(r, "transaction_fees")
    /\ LET fee == loc[r].tx_details.fee
       IN  IF IsSome(fee)
           THEN Let(r, "transaction_fees", Abs(Unwrap(fee))) /\ Goto(r, "create")
                /\ UNCHANGED err
           ELSE Panic(r, "PreconditionViolation") /\ UNCHANGED loc
    /\ UNCHANGED <<rpc_log, file, file0, off, after>>

(* lines 163-164: let mut output_file = File::create(out_path)?; *)
CreateFile(r) ==
    /\ At(r, "create")
    /\ file' = FileCreate(file)
    /\ off' = [off EXCEPT ![r] = 0]
    /\ after' = [after EXCEPT ![r] = {q \in Runs \ {r} : pc[q] = "done"}]
    /\ Goto(r, "writeln_1")
    /\ UNCHANGED <<err, loc, rpc_log, file0>>

(* line 164: File::create returns an error, which `?` propagates. *)
CreateFileFails(r) ==
    /\ At(r, "create")
    /\ Panic(r, "ReportWriteFailure")
    /\ UNCHANGED <<loc, rpc_log, file, file0, off, after>>

(* lines 166-175: the ten writeln! statements *)
NumLines == 10
WriteLabels ==
    << "writeln_1", "writeln_2", "writeln_3", "writeln_4", "writeln_5",
       "writeln_6", "writeln_7", "writeln_8", "writeln_9", "writeln_10" >>

(* Variant of ReportField: the change lines before the recipient lines. *)
ReportFieldSwapped(l, k) ==
    CASE k = 1 -> TxidStr(l.transaction_id)
      [] k = 2 -> l.miner_input_address
      [] k = 3 -> Fmt8(l.miner_input_amount)
      [] k = 4 -> l.miner_change_address
      [] k = 5 -> Fmt8(l.miner_change_amount)
      [] k = 6 -> l.trader_output_address
      [] k = 7 -> Fmt8(l.trader_output_amount)
      [] k = 8 -> Fmt8(l.transaction_fees)
      [] k = 9 -> DecDigits(l.block_height)
      [] k = 10 -> HashStr(l.block_hash)

(* lines 166-175: what the k-th writeln! prints, without its newline *)
ReportField(l, k) ==
    CASE k = 1 -> TxidStr(l.transaction_id)
      [] k = 2 -> l.miner_input_address
      [] k = 3 -> Fmt8(l.miner_input_amount)
      [] k = 4 -> l.trader_output_address
      [] k = 5 -> Fmt8(l.trader_output_amount)
      [] k = 6 -> l.miner_change_address
      [] k = 7 -> Fmt8(l.miner_change_amount)
      [] k = 8 -> Fmt8(l.transaction_fees)
      [] k = 9 -> DecDigits(l.block_height)
      [] k = 10 -> HashStr(l.block_hash)

(* lines 166-175: the k-th writeln!(output_file, ..)?, written at the handle's
   position, which then moves past it.  A line is written in one step; the
   unbuffered File may split it into several writes, which only adds
   interleavings between runs. *)
Writeln(r) ==
    \E k \in 1..NumLines :
        /\ At(r, WriteLabels[k])
        /\ LET bytes == Append(ReportField(loc[r], k), "\n")
           IN  /\ file' = WriteAt(file, off[r], bytes)
               /\ off' = [off EXCEPT ![r] = @ + Len(bytes)]
        /\ Goto(r, IF k = NumLines THEN "done" ELSE WriteLabels[k + 1])
        /\ UNCHANGED <<err, loc, rpc_log, file0, after>>

(* lines 166-175: a writeln! returns an error, which `?` propagates; nothing
   of the line is written. *)
WritelnFails(r) ==
    \E k \in 1..NumLines :
        /\ At(r, WriteLabels[k])
        /\ Panic(r, "ReportWriteFailure")
        /\ UNCHANGED <<loc, rpc_log, file, file0, off, after>>

-----------------------------------------------------------------------------
(* The locals of a run that has reached line 163, for two transactions the
   steps above can produce: in the first the recipient A is paid 20 and B gets
   the change; in the second nothing pays the recipient B. *)
LocalsA ==
    [ transaction_id |-> "t0", trader_address |-> "A",
      miner_input_address |-> AddrStr("M"), miner_input_amount |-> 2100000000,
      trader_output_address |-> AddrStr("A"), trader_output_amount |-> 2000000000,
      miner_change_address |-> AddrStr("B"), miner_change_amount |-> 1499999000,
      transaction_fees |-> 15000, block_height |-> 101, block_hash |-> "h101" ]
LocalsB ==
    [ transaction_id |-> "t1", trader_address |-> "B",
      miner_input_address |-> AddrStr("M"), miner_input_amount |-> 2100000000,
      trader_output_address |-> <<>>, trader_output_amount |-> 0,
      miner_change_address |-> AddrStr("A"), miner_change_amount |-> 500000000,
      transaction_fees |-> 0, block_height |-> 101, block_hash |-> "h101" ]
ConcLocals == {LocalsA, LocalsB}

(* ../out.txt before a run: absent, or left by an earlier complete run of
   lines 164-175 with the locals LocalsA. *)
Files0 ==
    { [exists |-> FALSE, data |-> <<>>],
      [exists |-> TRUE, data |-> Flatten([k \in 1..NumLines |-> ReportField(LocalsA, k)])] }

-----------------------------------------------------------------------------
(* One run of main, from line 115 *)

Init ==
    /\ pc = [r \in {1} |-> "get_transaction"]
    /\ err = [r \in {1} |-> "none"]
    /\ \E a \in TraderAddresses :
          loc = [r \in {1} |-> [transaction_id |-> "t0", trader_address |-> a]]
    /\ rpc_log = [r \in {1} |-> <<>>]
    /\ file \in Files0
    /\ file0 = file
    /\ off = [r \in {1} |-> 0]
    /\ after = [r \in {1} |-> {}]

Next ==
    \/ \E r \in Runs : GetTransaction(r)
    \/ \E r \in Runs : GetRawTransaction(r)
    \/ \E r \in Runs : BlockHeight(r)
    \/ \E r \in Runs : BlockHash(r)
    \/ \E r \in Runs : FirstInput(r)
    \/ \E r \in Runs : GetPrevRawTransaction(r)
    \/ \E r \in Runs : PrevOutput(r)
    \/ \E r \in Runs : MinerInput(r)
    \/ \E r \in Runs : Slots(r)
    \/ \E r \in Runs : ForOutput(r)
    \/ \E r \in Runs : TransactionFees(r)
    \/ \E r \in Runs : CreateFile(r)
    \/ \E r \in Runs : CreateFileFails(r)
    \/ \E r \in Runs : Writeln(r)
    \/ \E r \in Runs : WritelnFails(r)

Spec == Init /\ [][Next]_vars

-----------------------------------------------------------------------------
(* Two runs that have both reached line 163, each with the locals it computed
   from its own transaction, writing ../out.txt with no lock between them. *)

InitConc ==
    /\ pc = [r \in {1, 2} |-> "create"]
    /\ err = [r \in {1, 2} |-> "none"]
    /\ loc \in [{1, 2} -> ConcLocals]
    /\ loc[1] # loc[2]
    /\ rpc_log = [r \in {1, 2} |-> <<>>]
    /\ file \in Files0
    /\ file0 = file
    /\ off = [r \in {1, 2} |-> 0]
    /\ after = [r \in {1, 2} |-> {}]

NextConc ==
    \/ \E r \in Runs : CreateFile(r)
    \/ \E r \in Runs : Writeln(r)

SpecConc == InitConc /\ [][NextConc]_vars

-----------------------------------------------------------------------------
(* Vocabulary of the properties *)

InScope(r, name) == name \in DOMAIN loc[r]
Failed(r) == err[r] # "none"

(* The statements of main in program order. *)
Labels ==
    << "get_transaction", "get_raw_transaction", "block_height", "block_hash",
       "first_input", "prev_raw_tx", "prev_output", "miner_input", "slots",
       "for_output", "transaction_fees", "create" >> \o WriteLabels \o << "done" >>
RankOf == [label \in {Labels[i] : i \in 1..Len(Labels)} |->
              CHOOSE i \in 1..Len(Labels) : Labels[i] = label]
Rank(label) == RankOf[label]
Past(r, label) == Rank(pc[r]) > Rank(label)

ResolverLabels == {"first_input", "prev_raw_tx", "prev_output", "miner_input"}
ClassifierLabels == {"for_output"}
AggregatorLabels == {"block_height", "block_hash", "transaction_fees"}

(* The decoded address of an output, as text; <<>> when it has none. *)
Decoded(output) ==
    IF IsSome(from_script(output.script)) THEN AddrStr(Unwrap(from_script(output.script)))
    ELSE <<>>
Matches(r, output) == from_script(output.script) = Some(loc[r].trader_address)
Outputs(r) == loc[r].raw_tx.output
MatchingIndexes(r) == {k \in 1..Len(Outputs(r)) : Matches(r, Outputs(r)[k])}
Max(S) == CHOOSE x \in S : \A y \in S : y <= x
LoopOver(r) == InScope(r, "next") /\ loc[r].next = Len(Outputs(r))
AllDone == \A r \in Runs : pc[r] = "done"

(* The lookups a run has sent to the node, as opposed to the miner's wallet. *)
NodeLookups(r) == SelectSeq(rpc_log[r], LAMBDA c : c.client = "rpc")

(* The ten lines of the report, in the order the specification lists them. *)
ExpectedLines(l) ==
    << TxidStr(l.transaction_id), l.miner_input_address, Fmt8(l.miner_input_amount),
       l.trader_output_address, Fmt8(l.trader_output_amount),
       l.miner_change_address, Fmt8(l.miner_change_amount),
       Fmt8(l.transaction_fees), DecDigits(l.block_height), HashStr(l.block_hash) >>

Serialized(l) == Flatten(ExpectedLines(l))

(* The newline-terminated lines of a byte sequence; bytes after the last
   newline form a last, unterminated, element. *)
RECURSIVE SplitLines(_, _)
SplitLines(data, cur) ==
    IF data = <<>> THEN (IF cur = <<>> THEN <<>> ELSE <<cur>>)
    ELSE IF Head(data) = "\n" THEN <<cur>> \o SplitLines(Tail(data), <<>>)
    ELSE SplitLines(Tail(data), Append(cur, Head(data)))
FileLines == SplitLines(file.data, <<>>)
NewlineCount == Cardinality({k \in 1..Len(file.data) : file.data[k] = "\n"})

-----------------------------------------------------------------------------
(* C1: a run that aborts in the input resolver, the output classifier or the
   fee and metadata step has not created or written ../out.txt: the file is
   what it was before the run, so no file exists if none existed. *)
NoPartialReportOnFailure ==
    \A r \in Runs :
        (Failed(r) /\ pc[r] \in ResolverLabels \cup ClassifierLabels \cup AggregatorLabels)
            => /\ file = file0
               /\ (~file0.exists => ~file.exists)
               /\ err[r] \in {"NoInput", "LookupFailure", "IndexOutOfRange",
                              "AddressDecodeFailure", "PreconditionViolation"}

(* C1 witness: the second output's script does not decode, no file existed *)
WitnessDecodeFailureNoFile ==
    \E r \in Runs :
        /\ pc[r] = "for_output" /\ err[r] = "AddressDecodeFailure"
        /\ loc[r].next = 1
        /\ ~file0.exists /\ ~file.exists

(* C2 as stated: every successful run on a transaction with at least one input
   and one output reports ten non-empty fields. *)
AllTenFieldsNonEmpty ==
    \A r \in Runs :
        (pc[r] = "done" /\ Len(loc[r].raw_tx.input) >= 1 /\ Len(Outputs(r)) >= 1)
            => \A k \in 1..NumLines : ReportField(loc[r], k) # <<>>

(* C2 amended: a successful run on a transaction that has an output paying the
   recipient address and an output paying another address reports ten
   non-empty fields. *)
AllTenFieldsNonEmptyWhenBothKinds ==
    \A r \in Runs :
        (/\ pc[r] = "done"
         /\ Len(loc[r].raw_tx.input) >= 1
         /\ MatchingIndexes(r) # {}
         /\ MatchingIndexes(r) # 1..Len(Outputs(r)))
            => /\ \A k \in 1..NumLines : ReportField(loc[r], k) # <<>>
               /\ Len(FileLines) = NumLines
               /\ \A k \in 1..NumLines : FileLines[k] # <<>>

(* C2 witness: a finished run with a recipient output and a change output *)
WitnessDoneBothKinds ==
    \E r \in Runs :
        /\ pc[r] = "done"
        /\ MatchingIndexes(r) # {}
        /\ MatchingIndexes(r) # 1..Len(Outputs(r))

(* C3: with exactly two outputs, one paying the recipient address and one
   not, in either order, after the loop the recipient slot holds the matching
   output's address and amount and the change slot the other's. *)
ClassificationCorrect ==
    \A r \in Runs :
        (LoopOver(r) /\ Len(Outputs(r)) = 2 /\ Cardinality(MatchingIndexes(r)) = 1)
            => LET m == CHOOSE k \in 1..2 : k \in MatchingIndexes(r)
                   c == 3 - m
               IN  /\ loc[r].trader_output_address = AddrStr(loc[r].trader_address)
                   /\ loc[r].trader_output_address = Decoded(Outputs(r)[m])
                   /\ loc[r].trader_output_amount = Outputs(r)[m].value
                   /\ loc[r].miner_change_address = Decoded(Outputs(r)[c])
                   /\ loc[r].miner_change_amount = Outputs(r)[c].value

(* C3 witness: the recipient's output comes first, the change second *)
WitnessRecipientThenChange ==
    \E r \in Runs :
        /\ LoopOver(r) /\ Len(Outputs(r)) = 2
        /\ MatchingIndexes(r) = {1}

(* C4: when several outputs pay the recipient address, after the loop the
   recipient slot holds the address and the amount of the last of them. *)
LastMatchWins ==
    \A r \in Runs :
        (LoopOver(r) /\ Cardinality(MatchingIndexes(r)) > 1)
            => LET last == Outputs(r)[Max(MatchingIndexes(r))]
               IN  /\ loc[r].trader_output_address = Decoded(last)
                   /\ loc[r].trader_output_amount = last.value

(* C4 witness: two outputs to the recipient with different amounts *)
WitnessTwoMatches ==
    \E r \in Runs :
        /\ LoopOver(r)
        /\ Cardinality(MatchingIndexes(r)) > 1
        /\ \E i, j \in MatchingIndexes(r) : Outputs(r)[i].value # Outputs(r)[j].value

(* C5: when no output pays the recipient address, the recipient slot stays
   empty (empty address, zero amount) throughout the loop, and each output
   consumed is put in the change slot. *)
ZeroMatchesLeaveRecipientEmpty ==
    \A r \in Runs :
        (InScope(r, "next") /\ MatchingIndexes(r) = {})
            => /\ loc[r].trader_output_address = <<>>
               /\ loc[r].trader_output_amount = 0
               /\ IF loc[r].next = 0
                  THEN loc[r].miner_change_address = <<>> /\ loc[r].miner_change_amount = 0
                  ELSE /\ loc[r].miner_change_address = Decoded(Outputs(r)[loc[r].next])
                       /\ loc[r].miner_change_amount = Outputs(r)[loc[r].next].value

(* C5 witness: the loop is over two outputs, neither paying the recipient *)
WitnessNoMatch ==
    \E r \in Runs :
        /\ LoopOver(r) /\ Len(Outputs(r)) = 2 /\ MatchingIndexes(r) = {}
        /\ Outputs(r)[1].value # Outputs(r)[2].value

(* C6: a run whose block height, block hash or fee is absent stops at the
   statement that extracts it, with a precondition violation when it has
   executed it; a run that gets to the report has all three, unchanged. *)
PreconditionEnforced ==
    \A r \in Runs :
        InScope(r, "tx_details") =>
            LET d == loc[r].tx_details
            IN  /\ ~IsSome(d.blockheight) => ~Past(r, "block_height")
                /\ ~IsSome(d.blockhash) => ~Past(r, "block_hash")
                /\ ~IsSome(d.fee) => ~Past(r, "transaction_fees")
                /\ (Failed(r) /\ pc[r] \in AggregatorLabels)
                       => err[r] = "PreconditionViolation"
                /\ (Past(r, "transaction_fees") \/ file # file0)
                       => /\ IsSome(d.blockheight) /\ loc[r].block_height = Unwrap(d.blockheight)
                          /\ IsSome(d.blockhash) /\ loc[r].block_hash = Unwrap(d.blockhash)
                          /\ IsSome(d.fee)

(* C6 witness: the fee is absent and the run has panicked at line 161 *)
WitnessFeeAbsent ==
    \E r \in Runs :
        /\ pc[r] = "transaction_fees" /\ err[r] = "PreconditionViolation"
        /\ ~IsSome(loc[r].tx_details.fee)
        /\ file = file0

(* C7: a run that has resolved its input has issued exactly one lookup on
   the node, for the transaction the first input refers to, and reports the
   address and amount of the output of that transaction at the index the
   first input names; when that transaction is unknown or has no output at
   that index, the run stops in the resolver and reports nothing. *)
InputResolved ==
    \A r \in Runs :
        InScope(r, "raw_tx") =>
            LET input == loc[r].raw_tx.input
                prev == Ledger(input[1].txid)
                lookups == NodeLookups(r)
            IN  /\ Len(lookups) <= 1
                /\ \A k \in 1..Len(lookups) :
                      /\ Len(input) >= 1
                      /\ lookups[k].txid = input[1].txid
                      /\ lookups[k].method = "getrawtransaction"
                /\ Past(r, "prev_raw_tx") => Len(lookups) = 1
                /\ InScope(r, "miner_input_address") =>
                      /\ Len(input) >= 1 /\ IsSome(prev)
                      /\ input[1].vout < Len(Unwrap(prev).output)
                      /\ LET o == Unwrap(prev).output[input[1].vout + 1]
                         IN  /\ loc[r].miner_input_address = Decoded(o)
                             /\ loc[r].miner_input_address # <<>>
                             /\ loc[r].miner_input_amount = o.value
                /\ (Len(input) >= 1 /\ ~IsSome(prev)) =>
                      /\ ~Past(r, "prev_raw_tx")
                      /\ (pc[r] = "prev_raw_tx" /\ Failed(r)) => err[r] = "LookupFailure"
                /\ (Len(input) >= 1 /\ IsSome(prev)
                        /\ input[1].vout >= Len(Unwrap(prev).output)) =>
                      /\ ~Past(r, "prev_output")
                      /\ (pc[r] = "prev_output" /\ Failed(r)) => err[r] = "IndexOutOfRange"
                /\ Past(r, "miner_input") => InScope(r, "miner_input_address")

(* C7 witness: two inputs that refer to different outputs; the first is resolved *)
WitnessFirstOfTwoInputs ==
    \E r \in Runs :
        /\ InScope(r, "miner_input_address")
        /\ Len(loc[r].raw_tx.input) = 2
        /\ loc[r].raw_tx.input[1] # loc[r].raw_tx.input[2]

(* C8: when a run is done, ../out.txt holds exactly the ten lines, each ended
   by a newline, in the order transaction id, input address, input amount,
   recipient address, recipient amount, change address, change amount, fee,
   block height, block hash, whatever the file held before; over the file an
   identical report left, the contents are byte for byte the same. *)
ReportContents ==
    \A r \in Runs :
        pc[r] = "done" =>
            /\ file.exists
            /\ file.data = Serialized(loc[r])
            /\ FileLines = ExpectedLines(loc[r])
            /\ NewlineCount = 10
            /\ file.data[Len(file.data)] = "\n"
            /\ (file0.exists /\ file0.data = Serialized(loc[r])) => file.data = file0.data

(* C8 witness: a run is done over the longer file an earlier run left *)
WitnessOverwritesLongerFile ==
    \E r \in Runs :
        /\ pc[r] = "done"
        /\ file0.exists /\ Len(file0.data) > Len(Serialized(loc[r]))

(* C9: the fee in the report is the magnitude of the fee the wallet gave,
   whatever its sign: never negative, and 0.00015000 for -15000 units. *)
FeeSignNormalized ==
    \A r \in Runs :
        InScope(r, "transaction_fees") =>
            LET raw == Unwrap(loc[r].tx_details.fee)
                magnitude == IF raw < 0 THEN -raw ELSE raw
                field == ReportField(loc[r], 8)
            IN  /\ loc[r].transaction_fees = magnitude
                /\ loc[r].transaction_fees >= 0
                /\ \A k \in 1..Len(field) : field[k] # "-"
                /\ raw = -15000 =>
                      field = <<"0", ".", "0", "0", "0", "1", "5", "0", "0", "0">>
                /\ pc[r] = "done" => FileLines[8] = Fmt8(magnitude)

(* C9 witness: the wallet gave -15000 units and the report is written *)
WitnessNegativeFee ==
    \E r \in Runs :
        /\ pc[r] = "done"
        /\ Unwrap(loc[r].tx_details.fee) = -15000

(* C10 as stated: when both writers are done, the file is the complete
   report of one of them, under every interleaving. *)
FinalFileIsOneReport ==
    AllDone => \E r \in Runs : file.data = Serialized(loc[r])

(* C10 amended: when a writer creates the file only once the other writer is
   done, the file at the end is exactly that later writer's complete report. *)
LastWriterWinsWhenSerial ==
    \A r \in Runs :
        (AllDone /\ Cardinality(Runs) = 2 /\ after[r] = Runs \ {r})
            => /\ file.data = Serialized(loc[r])
               /\ FileLines = ExpectedLines(loc[r])

(* C10 witness: the writer of the shorter report ran after the other was done *)
WitnessSerialWriters ==
    \E r \in Runs :
        /\ AllDone /\ Cardinality(Runs) = 2 /\ after[r] = Runs \ {r}
        /\ \E q \in Runs : Len(Serialized(loc[q])) > Len(Serialized(loc[r]))

====
